---- MODULE Spec2Model ----
(***************************************************************************)
(* Pomelo: an index service based on suffix arrays.                        *)
(*                                                                         *)
(* Two state machines share this module.                                   *)
(*   SpecBuild  buildIndex (the scanner loop of main.go, one line per      *)
(*              step) followed by indexLookup on the buffer it produced.   *)
(*   Spec       the web service of web.go: the handlers list, query, load  *)
(*              and unload running as concurrent goroutines over the       *)
(*              process-wide map saIndexes.                                *)
(* Bytes are the integers 0..255, byte strings are sequences of them, and  *)
(* offsets into a byte string are 0-based as in the source.                *)
(***************************************************************************)
EXTENDS Integers, Sequences, FiniteSets, TLC

(***************************************************************************)
(* Constants of the program.                                               *)
(***************************************************************************)
maxLookup == 2048

delimiter == 0

MaxVarintLen64 == 10

TAB == 9

DefaultMaxLength == 120

DefaultMinValue == 1000

(***************************************************************************)
(* Bounds of the model.                                                    *)
(***************************************************************************)
\* requests the web service is sent in a run
MaxReq == 2

\* most q= parameters of one query
MaxTerms == 2

\* longest input handed to buildIndex, in lines
MaxLines == 3

\* the cap the lookups of SpecBuild run with; the source runs them with
\* maxLookup, which no buffer of MaxLines records can exceed
LookupCap == 2

(***************************************************************************)
(* Byte strings.                                                           *)
(***************************************************************************)
Min(x, y) == IF x < y THEN x ELSE y

\* s[i:j] of Go, i and j 0-based
Slice(s, i, j) == SubSeq(s, i + 1, j)

\* s[i] of Go
At(s, i) == s[i + 1]

RECURSIVE IndexByte(_, _, _)
\* first 0-based position >= from of byte c in s, or -1
IndexByte(s, c, from) ==
    IF from >= Len(s) THEN -1
    ELSE IF At(s, from) = c THEN from
    ELSE IndexByte(s, c, from + 1)

\* bytes.SplitN(line, "\t", 2)
SplitN(line) ==
    LET m == IndexByte(line, TAB, 0)
    IN  IF m < 0 THEN <<line>>
        ELSE <<Slice(line, 0, m), Slice(line, m + 1, Len(line))>>

RECURSIVE TrimLeft(_)
TrimLeft(s) ==
    IF Len(s) > 0 /\ Head(s) = delimiter THEN TrimLeft(Tail(s)) ELSE s

RECURSIVE TrimRight(_)
TrimRight(s) ==
    IF Len(s) > 0 /\ s[Len(s)] = delimiter
    THEN TrimRight(SubSeq(s, 1, Len(s) - 1))
    ELSE s

\* bytes.Trim(s, string(delimiter)): delimiter bytes leave both ends only
Trim(s) == TrimRight(TrimLeft(s))

RECURSIVE NFC(_)
\* norm.NFC.Bytes on the one decomposed pair the inputs hold: 'e' followed by
\* U+0301 (65 CC 81) composes to U+00E9 (C3 A9); other bytes pass unchanged
NFC(s) ==
    IF Len(s) = 0 THEN <<>>
    ELSE IF Len(s) >= 3 /\ SubSeq(s, 1, 3) = <<101, 204, 129>>
         THEN <<195, 169>> \o NFC(SubSeq(s, 4, Len(s)))
         ELSE <<Head(s)>> \o NFC(Tail(s))

IsDigit(c) == c >= 48 /\ c <= 57

RECURSIVE StripZeros(_)
StripZeros(s) ==
    IF Len(s) > 1 /\ Head(s) = 48 THEN StripZeros(Tail(s)) ELSE s

RECURSIVE SeqLess(_, _)
\* lexicographic order of two byte strings of equal length
SeqLess(s, t) ==
    IF Len(s) = 0 THEN FALSE
    ELSE IF Head(s) # Head(t) THEN Head(s) < Head(t)
    ELSE SeqLess(Tail(s), Tail(t))

RECURSIVE DecimalValue(_, _)
DecimalValue(s, acc) ==
    IF Len(s) = 0 THEN acc
    ELSE DecimalValue(Tail(s), acc * 10 + (Head(s) - 48))

\* strconv.ParseUint(s, 10, 32): a syntax error on the empty string and on
\* any byte that is no decimal digit, a range error above 2^32-1 (decided on
\* the digits: 4294967295 is <<52,50,57,52,57,54,55,50,57,53>>)
ParseUint(s) ==
    IF Len(s) = 0 \/ \E i \in 1..Len(s) : ~IsDigit(s[i])
    THEN [err |-> TRUE, val |-> 0]
    ELSE LET d == StripZeros(s)
         IN  IF Len(d) > 10
                \/ (Len(d) = 10 /\ SeqLess(<<52, 50, 57, 52, 57, 54, 55, 50, 57, 53>>, d))
             THEN [err |-> TRUE, val |-> 0]
             ELSE [err |-> FALSE, val |-> DecimalValue(d, 0)]

RECURSIVE PutUvarintAt(_, _, _)
PutUvarintAt(buf, x, i) ==
    IF x >= 128
    THEN PutUvarintAt([buf EXCEPT ![i + 1] = (x % 128) + 128], x \div 128, i + 1)
    ELSE [buf EXCEPT ![i + 1] = x]

\* binary.PutUvarint(buf, x): writes the encoding over the first bytes of buf
\* and leaves the bytes after it as they were
PutUvarint(buf, x) == PutUvarintAt(buf, x, 0)

RECURSIVE Pow128(_)
Pow128(n) == IF n = 0 THEN 1 ELSE 128 * Pow128(n - 1)

RECURSIVE UvarintAt(_, _, _)
UvarintAt(buf, i, x) ==
    IF i >= Len(buf) THEN 0
    ELSE LET b == At(buf, i)
         IN  IF b < 128
             THEN IF i = MaxVarintLen64 - 1 /\ b > 1 THEN 0
                  ELSE x + b * Pow128(i)
             ELSE UvarintAt(buf, i + 1, x + (b % 128) * Pow128(i))

\* val, _ := binary.Uvarint(buf): 0 when buf holds no terminating byte
Uvarint(buf) == UvarintAt(buf, 0, 0)

(***************************************************************************)
(* index/suffixarray, as far as indexLookup uses it.  An Index is modelled *)
(* by the bytes it was built over; its suffix array is the order           *)
(* SuffixLess, in which Lookup reports the matches.                        *)
(***************************************************************************)
RECURSIVE SuffixLess(_, _, _)
\* the suffix of d at i sorts before the suffix at j (i # j)
SuffixLess(d, i, j) ==
    IF i >= Len(d) THEN TRUE
    ELSE IF j >= Len(d) THEN FALSE
    ELSE IF At(d, i) # At(d, j) THEN At(d, i) < At(d, j)
    ELSE SuffixLess(d, i + 1, j + 1)

RECURSIVE SortOffsets(_, _)
SortOffsets(d, S) ==
    IF S = {} THEN <<>>
    ELSE LET m == CHOOSE x \in S : \A y \in S \ {x} : SuffixLess(d, x, y)
         IN  <<m>> \o SortOffsets(d, S \ {m})

\* the offsets at which s occurs in d
Occurrences(d, s) ==
    {i \in 0..(Len(d) - Len(s)) : Slice(d, i, i + Len(s)) = s}

\* Lookup as it would be if the cap n were ignored
Lookup_NoCap(d, s, n) ==
    IF Len(s) = 0 \/ n = 0 THEN <<>> ELSE SortOffsets(d, Occurrences(d, s))

\* x.Lookup(s, n), n >= 0: the first n matches in suffix-array order, all of
\* them when there are fewer; nothing for the empty s or for n = 0
Lookup(d, s, n) ==
    IF Len(s) = 0 \/ n = 0 THEN <<>>
    ELSE LET all == SortOffsets(d, Occurrences(d, s))
         IN  SubSeq(all, 1, Min(n, Len(all)))

(***************************************************************************)
(* indexLookup                                                             *)
(***************************************************************************)
RECURSIVE ScanStart(_, _)
\* for ; start > 0 && indexData[start-1] != delimiter; start--
ScanStart(d, start) ==
    IF start > 0 /\ At(d, start - 1) # delimiter
    THEN ScanStart(d, start - 1)
    ELSE start

RECURSIVE ScanEnd(_, _)
\* for ; end < len(indexData) && indexData[end] != delimiter; end++
ScanEnd(d, end) ==
    IF end < Len(d) /\ At(d, end) # delimiter
    THEN ScanEnd(d, end + 1)
    ELSE end

RECURSIVE ScanRest(_, _)
\* for ; end+1 < len(indexData) && indexData[end+1] == delimiter; end++
ScanRest(d, end) ==
    IF end + 1 < Len(d) /\ At(d, end + 1) = delimiter
    THEN ScanRest(d, end + 1)
    ELSE end

EndOf(d, offset) == ScanRest(d, ScanEnd(d, offset))

\* if end-offset < binary.MaxVarintLen64 { continue }
Skipped(d, offset) == EndOf(d, offset) - offset < MaxVarintLen64

\* the Item built for one offset that is not skipped
ItemAt(d, offset) ==
    LET start == ScanStart(d, offset)
        end   == EndOf(d, offset)
    IN  [Query |-> Slice(d, start, end - MaxVarintLen64),
         Value |-> Uvarint(Slice(d, end - MaxVarintLen64, end))]

RECURSIVE ItemsOf(_, _)
\* the loop over the offsets, in their order
ItemsOf(d, offsets) ==
    IF Len(offsets) = 0 THEN <<>>
    ELSE (IF Skipped(d, Head(offsets)) THEN <<>> ELSE <<ItemAt(d, Head(offsets))>>)
         \o ItemsOf(d, Tail(offsets))

\* the body of indexLookup with the cap of the Lookup call as parameter n
indexLookupN(indexData, search, n) == ItemsOf(indexData, Lookup(indexData, search, n))

indexLookup(indexData, search) == indexLookupN(indexData, search, maxLookup)

(***************************************************************************)
(* buildIndex: the inputs the model draws from.                            *)
(***************************************************************************)
\* "alice\t5000"
LineAlice == <<97, 108, 105, 99, 101, 9, 53, 48, 48, 48>>

\* "bob\t500"
LineBob == <<98, 111, 98, 9, 53, 48, 48>>

\* "alice2"
LineAlice2 == <<97, 108, 105, 99, 101, 50>>

\* the empty line
LineEmpty == <<>>

\* "la\t12416": the weight encodes as 80 61, whose second byte is 'a'
LineValSeg == <<108, 97, 9, 49, 50, 52, 49, 54>>

\* "\x00a\x00l\x00": delimiter bytes at both ends and inside the key
LineNul == <<0, 97, 0, 108, 0>>

\* "é\t5000": a key that NFC composes
LineNFC == <<101, 204, 129, 9, 53, 48, 48, 48>>

\* "al\tx": a weight that does not parse
LineBadWeight == <<97, 108, 9, 120>>

\* "al\t4294967296": a weight above 32 bits
LineBigWeight == <<97, 108, 9, 52, 50, 57, 52, 57, 54, 55, 50, 57, 54>>

Lines ==
    {LineAlice, LineBob, LineAlice2, LineEmpty, LineValSeg, LineNul, LineNFC,
     LineBadWeight, LineBigWeight}

\* the files buildIndex may be given: up to MaxLines different lines
LineSeqs ==
    UNION {{q \in [1..n -> Lines] : \A i, j \in 1..n : i # j => q[i] # q[j]}
           : n \in 0..MaxLines}

\* the (-max-length, -min-value) pairs tried
Configs ==
    {<<DefaultMaxLength, DefaultMinValue>>, <<DefaultMaxLength, 0>>, <<5, DefaultMinValue>>}

\* the search strings tried: "ali", "a", "l", "bob", "e2", e-acute, the empty string
Patterns ==
    {<<97, 108, 105>>, <<97>>, <<108>>, <<98, 111, 98>>, <<101, 50>>, <<195, 169>>, <<>>}

ZeroBytes(n) == [i \in 1..n |-> 0]

VARIABLES
    srcLines,   \* the lines of the source file
    length,     \* -max-length
    value,      \* -min-value
    scanned,    \* how many lines the scanner has delivered
    buffer,     \* bytes.Buffer of buildIndex
    valBuf,     \* the MaxVarintLen64 bytes PutUvarint writes into
    counter,    \* the count buildIndex returns
    kept,       \* history: the key and weight of every record written
    bpc,        \* "scan", "built" (suffixarray.New done), "looked"
    search,     \* the argument of the last indexLookup
    offsets,    \* the offsets its Lookup call returned
    items       \* the Items it returned

VARIABLES
    saIndexes,  \* the registry
    heap,       \* the Index objects allocated so far, by pointer
    q,          \* the queryHandler goroutine
    tasks,      \* the per-term goroutines of the query in flight
    ld,         \* the loadHandler goroutine
    ul,         \* the unloadHandler goroutine
    ls,         \* the listHandler goroutine
    fatal,      \* why the process died, "none" while it runs
    reqs,       \* requests received so far
    registered, \* history: the keys loaded with success and not unloaded since
    derived     \* history: the loads that derived their key, with path and key

wvars == <<saIndexes, heap, q, tasks, ld, ul, ls, fatal, reqs, registered, derived>>

bvars ==
    <<srcLines, length, value, scanned, buffer, valBuf, counter, kept, bpc,
      search, offsets, items>>

InitBuild ==
    /\ srcLines \in LineSeqs
    /\ \E c \in Configs : length = c[1] /\ value = c[2]
    /\ scanned = 0
    /\ buffer = <<>>
    /\ valBuf = ZeroBytes(MaxVarintLen64)
    /\ counter = 0
    /\ kept = <<>>
    /\ bpc = "scan"
    /\ search = <<>>
    /\ offsets = <<>>
    /\ items = <<>>

\* Decide as it would be if a line without weight were filtered as weight 0
Decide_FilterUnweighted(line, len, minv) ==
    LET parts == SplitN(line)
        p     == IF Len(parts) = 2 THEN ParseUint(parts[2]) ELSE [err |-> FALSE, val |-> 0]
    IN  IF p.err \/ p.val < minv
        THEN [keep |-> FALSE, val |-> 0]
        ELSE IF Len(parts[1]) > len
             THEN [keep |-> FALSE, val |-> 0]
             ELSE [keep |-> TRUE, val |-> p.val]

\* what one pass of the scanner loop decides for a line: whether the record
\* is written, and with which weight
Decide(line, len, minv) ==
    LET parts == SplitN(line)
        p     == IF Len(parts) = 2 THEN ParseUint(parts[2]) ELSE [err |-> FALSE, val |-> 0]
    IN  IF Len(parts) = 2 /\ (p.err \/ p.val < minv)
        THEN [keep |-> FALSE, val |-> 0]
        ELSE IF Len(parts[1]) > len
             THEN [keep |-> FALSE, val |-> 0]
             ELSE [keep |-> TRUE, val |-> p.val]

\* the key bytes written for a line
KeyBytes(line) == NFC(Trim(SplitN(line)[1]))

\* one pass of the loop `for scanner.Scan()` on the locals of buildIndex
EncodeLine(st, line, len, minv) ==
    LET d  == Decide(line, len, minv)
        vb == PutUvarint(st.valBuf, d.val)
    IN  IF d.keep
        THEN [buffer  |-> st.buffer \o KeyBytes(line) \o vb \o <<delimiter>>,
              valBuf  |-> vb,
              counter |-> st.counter + 1]
        ELSE st

ScanLine ==
    /\ bpc = "scan"
    /\ scanned < Len(srcLines)
    /\ LET line == srcLines[scanned + 1]
           st   == EncodeLine([buffer |-> buffer, valBuf |-> valBuf, counter |-> counter],
                              line, length, value)
       IN  /\ buffer' = st.buffer
           /\ valBuf' = st.valBuf
           /\ counter' = st.counter
           /\ kept' = IF st.counter > counter
                      THEN Append(kept, [key |-> KeyBytes(line),
                                         val |-> Decide(line, length, value).val])
                      ELSE kept
    /\ scanned' = scanned + 1
    /\ UNCHANGED <<srcLines, length, value, bpc, search, offsets, items, wvars>>

\* the scanner is exhausted: saIndex := suffixarray.New(buffer.Bytes())
SaNew ==
    /\ bpc = "scan"
    /\ scanned = Len(srcLines)
    /\ bpc' = "built"
    /\ UNCHANGED <<srcLines, length, value, scanned, buffer, valBuf, counter,
                   kept, search, offsets, items, wvars>>

\* indexLookup on the index just built
LookupStep ==
    /\ bpc \in {"built", "looked"}
    /\ \E s \in Patterns :
          /\ search' = s
          /\ offsets' = Lookup(buffer, s, LookupCap)
          /\ items' = indexLookupN(buffer, s, LookupCap)
    /\ bpc' = "looked"
    /\ UNCHANGED <<srcLines, length, value, scanned, buffer, valBuf, counter, kept, wvars>>

NextBuild == ScanLine \/ SaNew \/ LookupStep

(***************************************************************************)
(* Properties of buildIndex and indexLookup, checked under SpecBuild.      *)
(***************************************************************************)
HasWeight(line) == Len(SplitN(line)) = 2

\* the line is `TEXT` or `TEXT\tWEIGHT` with WEIGHT a decimal number
WellFormed(line) == HasWeight(line) => ~ParseUint(SplitN(line)[2]).err

\* the weight of a well-formed line, 0 when it has none
WeightOf(line) == IF HasWeight(line) THEN ParseUint(SplitN(line)[2]).val ELSE 0

\* survival as the filtering property words it
SurvivesAsClaimed(line) ==
    WeightOf(line) >= value /\ Len(SplitN(line)[1]) <= length

\* survival as the scanner loop decides it: the minimum applies to a weight
\* that is present
SurvivesAmended(line) ==
    /\ Len(SplitN(line)[1]) <= length
    /\ HasWeight(line) => (WellFormed(line) /\ WeightOf(line) >= value)

ScannedLines == {i \in 1..scanned : TRUE}

IsSubstring(s, k) == Occurrences(k, s) # {}

HasItem(k, v) == \E i \in 1..Len(items) : items[i].Query = k /\ items[i].Value = v

\* C9: for every retained record (K, W) and every non-empty substring s of K
\* with no more matching offsets in the buffer than the cap, lookup(s)
\* returns an item with key K and weight W.
C9_SubstringComplete ==
    (bpc = "looked" /\ Len(search) > 0
       /\ Cardinality(Occurrences(buffer, search)) <= LookupCap)
        => \A i \in 1..Len(kept) :
              IsSubstring(search, kept[i].key) => HasItem(kept[i].key, kept[i].val)

\* C10 as stated: never more than cap results, and exactly cap results when
\* the buffer holds more than cap occurrences of the pattern.
C10_ExactlyCap ==
    (bpc = "looked" /\ Len(search) > 0)
        => /\ Len(items) <= LookupCap
           /\ Cardinality(Occurrences(buffer, search)) > LookupCap
                 => Len(items) = LookupCap

SkippedOffsets == {i \in 1..Len(offsets) : Skipped(buffer, offsets[i])}

\* C10 amended: never more than cap results; of more than cap occurrences
\* exactly cap are examined, and there is one result for each examined offset
\* that lies at least MaxVarintLen64 bytes before the end of the delimiter
\* run after it, so exactly cap results when none is skipped.
C10_Cap ==
    (bpc = "looked" /\ Len(search) > 0)
        => /\ Len(items) <= LookupCap
           /\ Len(offsets) = Min(LookupCap, Cardinality(Occurrences(buffer, search)))
           /\ Len(items) = Len(offsets) - Cardinality(SkippedOffsets)
           /\ \A i \in 1..Len(offsets) : offsets[i] \in Occurrences(buffer, search)

\* more occurrences than the cap, none of the examined ones skipped
C10_Witness ==
    /\ bpc = "looked" /\ Len(search) > 0
    /\ Cardinality(Occurrences(buffer, search)) > LookupCap
    /\ SkippedOffsets = {}
    /\ Len(items) = LookupCap

(***************************************************************************)
(* The web service.                                                        *)
(*                                                                         *)
(* saIndexes is the Go map: a function whose domain is the set of keys     *)
(* present.  Its values are pointers to suffixarray.Index objects, which   *)
(* live in heap; pointer 0 is nil.  One goroutine of each handler runs at  *)
(* a time; a query has its per-term goroutines besides.  A goroutine whose *)
(* pc names a map access is inside that access, which takes effect when    *)
(* its step is taken.                                                      *)
(***************************************************************************)
nil == 0

\* the key "a"
KeyA == <<97>>

\* the bytes buildIndex produces for a source file
RECURSIVE EncodeAll(_, _, _, _)
EncodeAll(st, lines, len, minv) ==
    IF Len(lines) = 0 THEN st
    ELSE EncodeAll(EncodeLine(st, Head(lines), len, minv), Tail(lines), len, minv)

BuildBuffer(lines) ==
    EncodeAll([buffer |-> <<>>, valBuf |-> ZeroBytes(MaxVarintLen64), counter |-> 0],
              lines, DefaultMaxLength, 0).buffer

\* index files on disk.  ok: the file opens; data: the indexed bytes saved in
\* it; whole: the file holds all of what Index.Write wrote
\*   "fa"     built from "ab\t5" and "cd\t7"
\*   "fa2"    a copy of "fa"
\*   "fb"     built from "ab\t9"
\*   "trunc"  the file "fb" cut short
\*   "none"   no such file
Paths == {"fa", "fa2", "fb", "trunc", "none"}

File(path) ==
    CASE path \in {"fa", "fa2"} -> [ok |-> TRUE, whole |-> TRUE,
                            data |-> BuildBuffer(<<<<97, 98, 9, 53>>, <<99, 100, 9, 55>>>>)]
      [] path = "fb"    -> [ok |-> TRUE, whole |-> TRUE,
                            data |-> BuildBuffer(<<<<97, 98, 9, 57>>>>)]
      [] path = "trunc" -> [ok |-> TRUE, whole |-> FALSE,
                            data |-> SubSeq(BuildBuffer(<<<<97, 98, 9, 57>>>>), 1, 4)]
      [] OTHER          -> [ok |-> FALSE, whole |-> FALSE, data |-> <<>>]

RECURSIVE SumBytes(_)
SumBytes(d) ==
    IF Len(d) = 0 THEN 0 ELSE (Head(d) + 31 * SumBytes(Tail(d))) % 65521

\* stands for crc32.NewIEEE over the bytes of the file: a checksum that
\* depends on the content alone
Checksum(d) == (SumBytes(d) + Len(d)) % 65521

HexDigit(n) == IF n < 10 THEN 48 + n ELSE 87 + n

RECURSIVE Hex(_)
\* fmt.Sprintf("%x", n)
Hex(n) == IF n < 16 THEN <<HexDigit(n)>> ELSE Hex(n \div 16) \o <<HexDigit(n % 16)>>

\* DerivedKey as it would be if the key came from the name of the file
DerivedKey_FromName(path) == Hex(IF path = "fa" THEN 1 ELSE IF path = "fa2" THEN 2 ELSE 3)

\* the key loadIndex derives when it is given none
DerivedKey(path) == Hex(Checksum(File(path).data))

\* the key loadIndex registers the Index under: the one given, or the derived
\* one when none is given
ResolveKey(path, key) == IF Len(key) = 0 THEN DerivedKey(path) ELSE key

\* the key "-"
KeyDash == <<45>>

\* what the handlers are called with: the form value key is any string
LoadKeys == {<<>>, KeyA, KeyDash}

RouteKeys == {<<>>, KeyA, DerivedKey("fa")}

\* the q= values: "a", "c" and the empty string
TermList == <<<<97>>, <<99>>, <<>>>>

\* the q= lists tried: up to MaxTerms different values.  The goroutines of a
\* query differ by their term alone, so one order of each choice is enough
\* for them; the check of q looks at the first value, so the list with the
\* empty value first is tried too
TermSeqs ==
    UNION {{[i \in 1..n |-> TermList[f[i]]] :
               f \in {g \in [1..n -> 1..Len(TermList)] :
                         \A i, j \in 1..n : i < j => g[i] < g[j]}}
           : n \in 0..MaxTerms}
        \cup {<<TermList[3], TermList[1]>>}

\* the map operations
Put(f, k, v) == [x \in DOMAIN f \cup {k} |-> IF x = k THEN v ELSE f[x]]

Delete(f, k) == [x \in DOMAIN f \ {k} |-> f[x]]

\* saIndexes[k], nil for a missing key
Get(f, k) == IF k \in DOMAIN f THEN f[k] ELSE nil

\* suffixarray.New([]byte{})
\* an Index object: its bytes, and st = "empty" as New left it, "reading"
\* while Read is filling it or after Read failed, "loaded" once Read is done
EmptyIndex == [data |-> <<>>, st |-> "empty"]

vars ==
    <<srcLines, length, value, scanned, buffer, valBuf, counter, kept, bpc,
      search, offsets, items, saIndexes, heap, q, tasks, ld, ul, ls, fatal, reqs,
      registered, derived>>

QIdle ==
    [pc |-> "idle", key |-> <<>>, terms |-> <<>>, data |-> <<>>, group |-> 0,
     closed |-> FALSE, resp |-> "none", checked |-> nil, got |-> {}, recv |-> 0]

LdIdle ==
    [pc |-> "idle", path |-> "none", key |-> <<>>, local |-> TRUE, rkey |-> <<>>,
     obj |-> nil, resp |-> "none", wrote |-> FALSE, raced |-> FALSE]

UlIdle ==
    [pc |-> "idle", key |-> <<>>, local |-> TRUE, resp |-> "none", wrote |-> FALSE]

\* a term goroutine that has returned
TaskExit == [pc |-> "exit", index |-> nil, items |-> <<>>]

LsIdle == [pc |-> "idle", keys |-> {}, resp |-> "none"]

\* main with -web: the registry is empty, or holds the index named by
\* -index=fa -key=a
InitWeb ==
    /\ \/ saIndexes = <<>> /\ heap = <<>>
       \/ /\ saIndexes = Put(<<>>, KeyA, 1)
          /\ heap = <<[data |-> File("fa").data, st |-> "loaded"]>>
    /\ q = QIdle
    /\ tasks = <<>>
    /\ ld = LdIdle
    /\ ul = UlIdle
    /\ ls = LsIdle
    /\ fatal = "none"
    /\ reqs = 0
    /\ registered = DOMAIN saIndexes
    /\ derived = <<>>

Free(pc) == pc \in {"idle", "done"}

\* loadHandler has responded: its locals are gone, the model keeps what the
\* request did
LdDone(r, resp) ==
    [LdIdle EXCEPT !.pc = "done", !.resp = resp, !.wrote = r.wrote, !.raced = r.raced]

Running == fatal = "none"

CanStart == Running /\ reqs < MaxReq

(***************************************************************************)
(* listHandler                                                             *)
(***************************************************************************)
listStart ==
    /\ CanStart /\ Free(ls.pc)
    /\ ls' = [pc |-> "iter", keys |-> {}, resp |-> "none"]
    /\ reqs' = reqs + 1
    /\ UNCHANGED <<bvars, registered, derived, saIndexes, heap, q, tasks, ld, ul, fatal>>

\* for key := range saIndexes
listIter ==
    /\ Running /\ ls.pc = "iter"
    /\ ls' = [pc |-> "done", keys |-> DOMAIN saIndexes, resp |-> "OK"]
    /\ UNCHANGED <<bvars, registered, derived, saIndexes, heap, q, tasks, ld, ul, fatal, reqs>>

(***************************************************************************)
(* queryHandler                                                            *)
(***************************************************************************)
queryStart ==
    /\ CanStart /\ Free(q.pc)
    /\ \E k \in RouteKeys, ts \in TermSeqs :
          q' = [QIdle EXCEPT !.pc = "check", !.key = k, !.terms = ts]
    /\ tasks' = <<>>
    /\ reqs' = reqs + 1
    /\ UNCHANGED <<bvars, registered, derived, saIndexes, heap, ld, ul, ls, fatal>>

\* qs.Get("q") == "": no q parameter, or the first one is empty
NoQuery(ts) == Len(ts) = 0 \/ Len(ts[1]) = 0

\* queryCheck as it would be if group.Add were called for all terms but one
queryCheck_AddLess ==
    /\ Running /\ q.pc = "check"
    /\ IF Len(q.key) = 0 \/ q.key \notin DOMAIN saIndexes \/ NoQuery(q.terms)
       THEN /\ q' = [QIdle EXCEPT !.pc = "done", !.resp = "BadRequest"]
            /\ tasks' = <<>>
       ELSE /\ q' = [q EXCEPT !.pc = "merge", !.group = Len(q.terms) - 1,
                              !.checked = saIndexes[q.key]]
            /\ tasks' = [i \in 1..Len(q.terms) |-> [TaskExit EXCEPT !.pc = "get"]]
    /\ UNCHANGED <<bvars, registered, derived, saIndexes, heap, ld, ul, ls, fatal, reqs>>

\* the existence check, the check of q, and the loop that starts one
\* goroutine per term
queryCheck ==
    /\ Running /\ q.pc = "check"
    /\ IF Len(q.key) = 0 \/ q.key \notin DOMAIN saIndexes \/ NoQuery(q.terms)
       THEN /\ q' = [QIdle EXCEPT !.pc = "done", !.resp = "BadRequest"]
            /\ tasks' = <<>>
       ELSE /\ q' = [q EXCEPT !.pc = "merge", !.group = Len(q.terms),
                              !.checked = saIndexes[q.key]]
            /\ tasks' = [i \in 1..Len(q.terms) |-> [TaskExit EXCEPT !.pc = "get"]]
    /\ UNCHANGED <<bvars, registered, derived, saIndexes, heap, ld, ul, ls, fatal, reqs>>

\* a term goroutine evaluates saIndexes[key]; its term is q.terms[i]
taskGet(i) ==
    /\ Running /\ tasks[i].pc = "get"
    /\ tasks' = [tasks EXCEPT ![i].pc = "lookup", ![i].index = Get(saIndexes, q.key)]
    /\ UNCHANGED <<bvars, registered, derived, saIndexes, heap, q, ld, ul, ls, fatal, reqs>>

\* what a lookup may return on the Index object x: its result when the object
\* is at rest; while Read is filling the object the reader races with it and
\* may find nothing or what the bytes read so far give
LookupResults(x, query) ==
    IF x.st # "reading" THEN {indexLookup(x.data, query)}
    ELSE {<<>>, indexLookup(x.data, query)}

\* it calls indexLookup(index, query); a nil index is dereferenced, and the
\* panic of a goroutine that is not the handler's ends the process
taskLookup(i) ==
    /\ Running /\ tasks[i].pc = "lookup"
    /\ IF tasks[i].index = nil
       THEN /\ fatal' = "nil pointer dereference"
            /\ UNCHANGED tasks
       ELSE /\ \E r \in LookupResults(heap[tasks[i].index], q.terms[i]) :
                  tasks' = [tasks EXCEPT ![i].pc = "send", ![i].index = nil,
                                         ![i].items = r]
            /\ UNCHANGED fatal
    /\ UNCHANGED <<bvars, registered, derived, saIndexes, heap, q, ld, ul, ls, reqs>>

RECURSIVE MergeItems(_, _)
\* for _, item := range items { data[item.Query] = item.Value }
MergeItems(data, its) ==
    IF Len(its) = 0 THEN data
    ELSE MergeItems(Put(data, Head(its).Query, Head(its).Value), Tail(its))

\* ch is unbuffered: the send of task i and a receive of the merge loop
\* happen together, and the loop body merges the batch
taskSend(i) ==
    /\ Running /\ tasks[i].pc = "send" /\ q.pc = "merge" /\ ~q.closed
    /\ q' = [q EXCEPT !.data = MergeItems(q.data, tasks[i].items),
                      !.recv = q.recv + 1,
                      !.got = q.got \cup {tasks[i].items[j] : j \in 1..Len(tasks[i].items)}]
    /\ tasks' = [tasks EXCEPT ![i].pc = "sent", ![i].items = <<>>]
    /\ UNCHANGED <<bvars, registered, derived, saIndexes, heap, ld, ul, ls, fatal, reqs>>

\* group.Done()
taskDone(i) ==
    /\ Running /\ tasks[i].pc = "sent"
    /\ q' = [q EXCEPT !.group = q.group - 1]
    /\ tasks' = [tasks EXCEPT ![i].pc = "exit"]
    /\ UNCHANGED <<bvars, registered, derived, saIndexes, heap, ld, ul, ls, fatal, reqs>>

\* queryClose as it would be if ch were closed while a goroutine is still out
queryClose_Early ==
    /\ Running /\ q.pc = "merge" /\ ~q.closed /\ q.group <= 1
    /\ q' = [q EXCEPT !.closed = TRUE]
    /\ UNCHANGED <<bvars, registered, derived, saIndexes, heap, tasks, ld, ul, ls, fatal, reqs>>

\* go func() { group.Wait(); close(ch) }()
queryClose ==
    /\ Running /\ q.pc = "merge" /\ ~q.closed /\ q.group = 0
    /\ q' = [q EXCEPT !.closed = TRUE]
    /\ UNCHANGED <<bvars, registered, derived, saIndexes, heap, tasks, ld, ul, ls, fatal, reqs>>

\* the range over ch ends when ch is closed; the response carries data, and
\* the locals of the handler are gone with it
queryReturn ==
    /\ Running /\ q.pc = "merge" /\ q.closed
    /\ q' = [QIdle EXCEPT !.pc = "done", !.resp = "OK"]
    /\ tasks' = <<>>
    /\ UNCHANGED <<bvars, registered, derived, saIndexes, heap, ld, ul, ls, fatal, reqs>>

(***************************************************************************)
(* loadHandler and loadIndex                                               *)
(***************************************************************************)
\* loadStart as it would be if the form and the file were checked before isLocal
loadStart_ValidateFirst ==
    /\ CanStart /\ Free(ld.pc)
    /\ \E path \in Paths, key \in LoadKeys, local \in BOOLEAN, formOk \in BOOLEAN :
          /\ ld' = IF ~formOk \/ ~File(path).ok
                   THEN [LdIdle EXCEPT !.pc = "done", !.local = local, !.resp = "BadRequest"]
                   ELSE IF ~local
                        THEN [LdIdle EXCEPT !.pc = "done", !.local = FALSE, !.resp = "Forbidden"]
                        ELSE [LdIdle EXCEPT !.pc = "insert", !.path = path, !.key = key,
                                            !.rkey = ResolveKey(path, key)]
          /\ derived' = IF local /\ formOk /\ File(path).ok /\ Len(key) = 0
                        THEN Append(derived, [path |-> path, key |-> ResolveKey(path, key)])
                        ELSE derived
    /\ reqs' = reqs + 1
    /\ UNCHANGED <<bvars, registered, saIndexes, heap, q, tasks, ul, ls, fatal>>

\* isLocal, ParseForm, os.Open and the derivation of the key
loadStart ==
    /\ CanStart /\ Free(ld.pc)
    /\ \E path \in Paths, key \in LoadKeys, local \in BOOLEAN, formOk \in BOOLEAN :
          /\ ld' = IF ~local
                   THEN [LdIdle EXCEPT !.pc = "done", !.local = FALSE, !.resp = "Forbidden"]
                   ELSE IF ~formOk \/ ~File(path).ok
                        THEN [LdIdle EXCEPT !.pc = "done", !.resp = "BadRequest"]
                        ELSE [LdIdle EXCEPT !.pc = "insert", !.path = path, !.key = key,
                                            !.rkey = ResolveKey(path, key)]
          /\ derived' = IF local /\ formOk /\ File(path).ok /\ Len(key) = 0
                        THEN Append(derived, [path |-> path, key |-> ResolveKey(path, key)])
                        ELSE derived
    /\ reqs' = reqs + 1
    /\ UNCHANGED <<bvars, registered, saIndexes, heap, q, tasks, ul, ls, fatal>>

\* saIndexes[key] = suffixarray.New([]byte{})
loadInsert ==
    /\ Running /\ ld.pc = "insert"
    /\ heap' = Append(heap, EmptyIndex)
    /\ saIndexes' = Put(saIndexes, ld.rkey, Len(heap) + 1)
    /\ ld' = [ld EXCEPT !.pc = "get", !.wrote = TRUE]
    /\ UNCHANGED <<bvars, registered, derived, q, tasks, ul, ls, fatal, reqs>>

\* saIndexes[key] is evaluated again for the call of Read; Read on nil
\* panics, and net/http recovers the panic of a handler: no response
loadGet ==
    /\ Running /\ ld.pc = "get"
    /\ ld' = IF Get(saIndexes, ld.rkey) = nil
             THEN LdDone(ld, "Aborted")
             ELSE [ld EXCEPT !.pc = "read", !.obj = saIndexes[ld.rkey]]
    /\ UNCHANGED <<bvars, registered, derived, saIndexes, heap, q, tasks, ul, ls, fatal, reqs>>

\* Index.Read fills the object in place: first its data
loadReadData ==
    /\ Running /\ ld.pc = "read"
    /\ heap' = [heap EXCEPT ![ld.obj] =
                   [data |-> File(ld.path).data, st |-> "reading"]]
    /\ ld' = [ld EXCEPT !.pc = "readsa"]
    /\ UNCHANGED <<bvars, registered, derived, saIndexes, q, tasks, ul, ls, fatal, reqs>>

\* then its suffix array; a file cut short ends Read with an error and leaves
\* the object as far as it was read
loadReadEnd ==
    /\ Running /\ ld.pc = "readsa"
    /\ IF File(ld.path).whole
       THEN /\ heap' = [heap EXCEPT ![ld.obj].st = "loaded"]
            /\ ld' = LdDone(ld, "OK")
            /\ registered' = registered \cup {ld.rkey}
       ELSE /\ heap' = heap
            /\ ld' = LdDone(ld, "BadRequest")
            /\ registered' = registered
    /\ UNCHANGED <<bvars, derived, saIndexes, q, tasks, ul, ls, fatal, reqs>>

(***************************************************************************)
(* unloadHandler                                                           *)
(***************************************************************************)
unloadStart ==
    /\ CanStart /\ Free(ul.pc)
    /\ \E key \in RouteKeys, local \in BOOLEAN :
          ul' = IF ~local
                THEN [UlIdle EXCEPT !.pc = "done", !.local = FALSE, !.resp = "Forbidden"]
                ELSE [UlIdle EXCEPT !.pc = "check", !.key = key]
    /\ reqs' = reqs + 1
    /\ UNCHANGED <<bvars, registered, derived, saIndexes, heap, q, tasks, ld, ls, fatal>>

\* if _, existed := saIndexes[indexKey]; indexKey == "" || !existed
unloadCheck ==
    /\ Running /\ ul.pc = "check"
    /\ ul' = IF Len(ul.key) = 0 \/ ul.key \notin DOMAIN saIndexes
             THEN [UlIdle EXCEPT !.pc = "done", !.resp = "BadRequest"]
             ELSE [ul EXCEPT !.pc = "delete"]
    /\ UNCHANGED <<bvars, registered, derived, saIndexes, heap, q, tasks, ld, ls, fatal, reqs>>

\* unloadDelete as it would be if it emptied the registry
unloadDelete_All ==
    /\ Running /\ ul.pc = "delete"
    /\ saIndexes' = <<>>
    /\ ul' = [UlIdle EXCEPT !.pc = "done", !.resp = "OK", !.wrote = TRUE]
    /\ ld' = IF Free(ld.pc) THEN ld ELSE [ld EXCEPT !.raced = TRUE]
    /\ registered' = registered \ {ul.key}
    /\ UNCHANGED <<bvars, derived, heap, q, tasks, ls, fatal, reqs>>

\* delete(saIndexes, indexKey)
unloadDelete ==
    /\ Running /\ ul.pc = "delete"
    /\ saIndexes' = Delete(saIndexes, ul.key)
    /\ ul' = [UlIdle EXCEPT !.pc = "done", !.resp = "OK", !.wrote = TRUE]
    /\ ld' = IF Free(ld.pc) THEN ld ELSE [ld EXCEPT !.raced = TRUE]
    /\ registered' = registered \ {ul.key}
    /\ UNCHANGED <<bvars, derived, heap, q, tasks, ls, fatal, reqs>>

(***************************************************************************)
(* The Go runtime on unsynchronized map access.                            *)
(***************************************************************************)
\* the goroutines that are inside a write of saIndexes
MapWriters ==
    (IF ld.pc = "insert" THEN {<<"load", 0>>} ELSE {})
        \cup (IF ul.pc = "delete" THEN {<<"unload", 0>>} ELSE {})

\* the goroutines that are inside a read of saIndexes
MapReaders ==
    (IF ls.pc = "iter" THEN {<<"list", 0>>} ELSE {})
        \cup (IF q.pc = "check" THEN {<<"query", 0>>} ELSE {})
        \cup (IF ul.pc = "check" THEN {<<"unload", 0>>} ELSE {})
        \cup (IF ld.pc = "get" THEN {<<"load", 0>>} ELSE {})
        \cup {<<"task", i>> : i \in {j \in DOMAIN tasks : tasks[j].pc = "get"}}

\* a write overlaps another access
MapRace ==
    \E w \in MapWriters : (MapWriters \cup MapReaders) \ {w} # {}

\* the map's own check may notice the overlap: "fatal error: concurrent map
\* writes" or "concurrent map read and map write", which ends the process
mapFault ==
    /\ Running /\ MapRace
    /\ fatal' = "concurrent map access"
    /\ UNCHANGED <<bvars, registered, derived, saIndexes, heap, q, tasks, ld, ul, ls, reqs>>

(***************************************************************************)
(* The specifications.                                                     *)
(***************************************************************************)
\* the steps of goroutines that are running, as opposed to requests arriving
Steps ==
    \/ listIter
    \/ queryCheck
    \/ \E i \in DOMAIN tasks : taskGet(i)
    \/ \E i \in DOMAIN tasks : taskLookup(i)
    \/ \E i \in DOMAIN tasks : taskSend(i)
    \/ \E i \in DOMAIN tasks : taskDone(i)
    \/ queryClose
    \/ queryReturn
    \/ loadInsert
    \/ loadGet
    \/ loadReadData
    \/ loadReadEnd
    \/ unloadCheck
    \/ unloadDelete

Requests == listStart \/ queryStart \/ loadStart \/ unloadStart

NextWeb == Requests \/ Steps \/ mapFault

\* the build variables while the web service is modelled
BuildOff ==
    /\ srcLines = <<>> /\ length = 0 /\ value = 0 /\ scanned = 0
    /\ buffer = <<>> /\ valBuf = ZeroBytes(MaxVarintLen64) /\ counter = 0
    /\ kept = <<>> /\ bpc = "off" /\ search = <<>> /\ offsets = <<>> /\ items = <<>>

\* the web variables while buildIndex is modelled
WebOff ==
    /\ saIndexes = <<>> /\ heap = <<>> /\ q = QIdle /\ tasks = <<>> /\ ld = LdIdle
    /\ ul = UlIdle /\ ls = LsIdle /\ fatal = "none" /\ reqs = 0
    /\ registered = {} /\ derived = <<>>

Init == InitWeb /\ BuildOff

Next == NextWeb

Spec == Init /\ [][Next]_vars

\* every goroutine that can take a step eventually takes one
FairSpec == Spec /\ WF_vars(Steps)

\* the state when main runs with -build
InitB == InitBuild /\ WebOff

SpecBuild == InitB /\ [][NextBuild]_vars

(***************************************************************************)
(* Properties of the web service.                                          *)
(***************************************************************************)
\* C1: load and unload called by a caller that is not local answer Forbidden
\* and leave the registry as it was, whatever the arguments and the registry;
\* the step that handles such a request is its only step.
C1_TrustGate ==
    [][/\ (ld' # ld /\ ~ld'.local)
           => (ld'.pc = "done" /\ ld'.resp = "Forbidden" /\ ~ld'.wrote
               /\ saIndexes' = saIndexes /\ heap' = heap)
       /\ (ul' # ul /\ ~ul'.local)
           => (ul'.pc = "done" /\ ul'.resp = "Forbidden" /\ ~ul'.wrote
               /\ saIndexes' = saIndexes /\ heap' = heap)]_vars

\* a load and an unload from elsewhere have both been refused while the
\* registry holds key "a"
C1_Witness ==
    /\ ld.pc = "done" /\ ~ld.local /\ ld.resp = "Forbidden"
    /\ ul.pc = "done" /\ ~ul.local /\ ul.resp = "Forbidden"
    /\ KeyA \in DOMAIN saIndexes

\* C2: a load that fails has committed nothing: it has not written the
\* registry, and every Index the registry holds is a wholly loaded one.
C2_FailedLoadCommitsNothing ==
    (ld.pc = "done" /\ ld.resp = "BadRequest")
        => /\ ~ld.wrote
           /\ \A k \in DOMAIN saIndexes : heap[saIndexes[k]].st = "loaded"

\* C3: a reader running beside a load of key k sees for k the state before
\* the load or the wholly loaded new Index: the Index a query goroutine has
\* fetched from the registry is never an empty or partly read one.
C3_ReaderSeesWholeIndex ==
    \A i \in DOMAIN tasks :
        (tasks[i].pc = "lookup" /\ tasks[i].index # nil)
            => heap[tasks[i].index].st = "loaded"

\* C4: every per-term lookup of a query that passed the existence check runs
\* on the Index registered at that check, never on nil, and ends normally.
C4_LookupOnCheckedIndex ==
    /\ fatal # "nil pointer dereference"
    /\ \A i \in DOMAIN tasks :
          tasks[i].pc = "lookup" => (tasks[i].index # nil /\ tasks[i].index = q.checked)

\* C5: no registry write is in progress together with another registry access.
C5_MutualExclusion == ~MapRace

\* C6: every query that passed validation returns, after each of its per-term
\* goroutines has delivered its batch and finished.
C6_QueryReturns ==
    /\ (q.pc = "merge") ~> (q.pc = "done")
    /\ []((q.pc = "merge" /\ q.closed) => \A i \in DOMAIN tasks : tasks[i].pc = "exit")

RECURSIVE MergeTerms(_, _, _)
\* the batches of terms i.. of the query merged in the order of the terms
MergeTerms(data, d, i) ==
    IF i > Len(q.terms) THEN data
    ELSE MergeTerms(MergeItems(data, indexLookup(d, q.terms[i])), d, i + 1)

\* C7: when the merge loop has ended, every goroutine has delivered its
\* batch, the keys of the mapping are the key texts of the delivered items,
\* and each key has a weight delivered with it; a query that ran alone on an
\* index in which a key text has one weight returns the mapping of the terms
\* merged in order, whatever the order of arrival.
C7_MergedResult ==
    (q.pc = "merge" /\ q.closed)
        => /\ \A i \in DOMAIN tasks : tasks[i].pc = "exit"
           /\ DOMAIN q.data = {it.Query : it \in q.got}
           /\ \A k \in DOMAIN q.data : [Query |-> k, Value |-> q.data[k]] \in q.got
           /\ reqs = 1 => q.data = MergeTerms(<<>>, heap[q.checked].data, 1)

\* a query of two terms has merged two records
C7_Witness ==
    /\ q.pc = "merge" /\ q.closed
    /\ Len(q.terms) = 2
    /\ Cardinality(DOMAIN q.data) = 2

\* C11: a list that runs when no load or unload is in progress returns
\* exactly the keys for which a load has succeeded and no unload has
\* succeeded since the last such load: failed loads, rejected unloads,
\* queries and lists have not changed which keys are present.
C11_ListReturnsRegistered ==
    [][(ls.pc = "iter" /\ ls'.pc = "done" /\ Free(ld.pc) /\ Free(ul.pc))
           => ls'.keys = registered]_vars

\* C12: the step of a trusted unload that finds its key present removes that
\* entry and leaves every other entry, key and Index, as it was; an unload of
\* an absent or empty key changes nothing and reports that the key did not
\* exist.
C12_UnloadFrame ==
    [][/\ (ul.pc = "delete" /\ ul'.pc = "done")
           => /\ ul.key \in DOMAIN saIndexes
              /\ DOMAIN saIndexes' = DOMAIN saIndexes \ {ul.key}
              /\ \A k \in DOMAIN saIndexes' : saIndexes'[k] = saIndexes[k]
              /\ heap' = heap
              /\ ul'.resp = "OK"
       /\ (ul.pc = "check" /\ ul'.pc = "delete")
           => (Len(ul.key) > 0 /\ ul.key \in DOMAIN saIndexes /\ saIndexes' = saIndexes)
       /\ (ul.pc = "check" /\ ul'.pc = "done")
           => /\ Len(ul.key) = 0 \/ ul.key \notin DOMAIN saIndexes
              /\ ul'.resp = "BadRequest"
              /\ saIndexes' = saIndexes /\ heap' = heap]_vars

\* key "a" has been unloaded and the entry loaded beside it is still there
C12_Witness ==
    /\ ul.pc = "done" /\ ul.resp = "OK" /\ ul.wrote
    /\ ld.pc = "done" /\ ld.resp = "OK"
    /\ KeyA \notin DOMAIN saIndexes
    /\ DOMAIN saIndexes # {}
    /\ \A k \in DOMAIN saIndexes : heap[saIndexes[k]].st = "loaded"

\* C13: query answers bad request exactly when its key is empty or unknown or
\* its list of terms is empty, and a rejected query has started no goroutine;
\* a query with a known key and a list of terms that is not empty is let
\* through to its lookups.
C13_BadRequestExactly ==
    [][(q.pc = "check" /\ q'.pc # "check")
           => /\ (q'.pc = "done" /\ q'.resp = "BadRequest")
                    <=> (Len(q.key) = 0 \/ q.key \notin DOMAIN saIndexes
                            \/ Len(q.terms) = 0)
              /\ (q'.pc = "done") => tasks' = <<>>
              /\ (q'.pc # "done") => (q'.pc = "merge" /\ Len(tasks') = Len(q.terms))]_vars

IsAlnum(b) == (48 <= b /\ b <= 57) \/ (65 <= b /\ b <= 90) \/ (97 <= b /\ b <= 122)

\* the routes of query and unload match a key with {key:[0-9a-zA-Z]+}
MatchesKeyPattern(k) == Len(k) > 0 /\ \A j \in 1..Len(k) : IsAlnum(k[j])

\* C16: every key present in the registry matches [0-9a-zA-Z]+, so that the
\* query and unload routes can address it.
C16_KeysMatchPattern == \A k \in DOMAIN saIndexes : MatchesKeyPattern(k)

\* the goroutines of the query that have sent their batch
Senders == {i \in DOMAIN tasks : tasks[i].pc \in {"sent", "exit"}}

\* C19: in a query with n terms the merge loop has received one batch from
\* each goroutine that has sent and none from the others, hence n batches at
\* most; ch is closed only when all n batches have been received, it stays
\* closed, and no batch is sent on it once it is closed.
C19_ChannelDiscipline ==
    /\ [](q.pc = "merge"
             => /\ q.recv = Cardinality(Senders)
                /\ q.recv <= Len(q.terms)
                /\ q.closed => (q.recv = Len(q.terms) /\ Senders = DOMAIN tasks))
    /\ [][(q.pc = "merge" /\ q'.pc = "merge")
              => /\ q'.recv # q.recv
                     => /\ ~q.closed /\ ~q'.closed
                        /\ q'.recv = q.recv + 1
                        /\ \E i \in DOMAIN tasks :
                              /\ tasks[i].pc = "send" /\ tasks'[i].pc = "sent"
                              /\ \A j \in DOMAIN tasks \ {i} : tasks'[j] = tasks[j]
                 /\ q.closed => q'.closed]_vars

\* the two goroutines of a query of two terms have each sent their batch and
\* ch has been closed
C19_Witness ==
    /\ q.pc = "merge" /\ q.closed
    /\ Len(q.terms) = 2
    /\ q.recv = 2

(***************************************************************************)
(* Properties of the bytes buildIndex writes, checked under SpecBuild.     *)
(***************************************************************************)
\* C14: the key segment written for a line holds no delimiter byte, wherever
\* the key text of the line had such bytes.
C14_NoDelimiterInKey ==
    \A i \in 1..Len(kept) :
        \A j \in 1..Len(kept[i].key) : kept[i].key[j] # delimiter

RECURSIVE RecordsAlone(_)
\* the records each encoded by itself: the key, the encoding of the weight in
\* a slot of delimiter bytes, the delimiter
RecordsAlone(recs) ==
    IF Len(recs) = 0 THEN <<>>
    ELSE Head(recs).key \o PutUvarint(ZeroBytes(MaxVarintLen64), Head(recs).val)
             \o <<delimiter>> \o RecordsAlone(Tail(recs))

\* C17: the bytes written for a record depend on its key and weight alone:
\* the buffer is the concatenation of the records each encoded by itself.
C17_RecordBytesIndependent == buffer = RecordsAlone(kept)

\* C18: every item indexLookup returns has the key and the weight of a record
\* that buildIndex wrote.
C18_ItemsAreRecords ==
    bpc = "looked"
        => \A i \in 1..Len(items) :
              \E j \in 1..Len(kept) :
                  items[i].Query = kept[j].key /\ items[i].Value = kept[j].val

====
